---- MODULE Spec2Model ----
(***************************************************************************)
(* River Runner (riverrun.py): the SQLite entity store (DatabaseManager),  *)
(* the shell handlers of MainWindow and FileAttachmentWidget that call it, *)
(* and the JSON export / import reconciliation.                            *)
(*                                                                         *)
(* Text is a sequence of characters, so that str.lower() and str.strip()   *)
(* are computed and not assumed.  A table is a set of rows; the columns    *)
(* kept are the ones the handlers below read (the optional columns of a   *)
(* river are one field, `region`); the store also carries its schema, the  *)
(* columns of every table, which init_database alone writes.  No           *)
(* connection ever issues                                                  *)
(* PRAGMA foreign_keys = ON, so SQLite parses the REFERENCES ... ON DELETE *)
(* CASCADE clauses of init_database and enforces none of them.             *)
(***************************************************************************)
EXTENDS Naturals, Integers, Sequences, FiniteSets, TLC

VARIABLES db, files, clock, include_trip_logs, trace

vars == <<db, files, clock, include_trip_logs, trace>>

(***************************************************************************)
(* Bounds of the model.                                                    *)
(***************************************************************************)
MaxRiverId == 2
MaxTripId == 2
TraceMaxTripId == 1
SpecMaxRows == 1
MaxClock == 1
MaxRecords == 2
MaxBatch == 3
MaxDocId == 2
MaxRuns == 2

(***************************************************************************)
(* Text.                                                                   *)
(***************************************************************************)
Lower(c) == CASE c = "O" -> "o" [] c = "T" -> "t" [] OTHER -> c

IsSpace(c) == c = " "

lower(s) == [i \in 1..Len(s) |-> Lower(s[i])]

RECURSIVE lstrip(_)
lstrip(s) == IF s # <<>> /\ IsSpace(Head(s)) THEN lstrip(Tail(s)) ELSE s

RECURSIVE rstrip(_)
rstrip(s) ==
    IF s # <<>> /\ IsSpace(s[Len(s)]) THEN rstrip(SubSeq(s, 1, Len(s) - 1)) ELSE s

strip(s) == rstrip(lstrip(s))

(***************************************************************************)
(* JSON values of a key of an imported object: a string, null, or the key  *)
(* is absent.  dict.get(key, default) gives the default only when the key  *)
(* is absent; a null stays None.                                           *)
(***************************************************************************)
JStr(s) == [k |-> "str", s |-> s]
JNull == [k |-> "null", s |-> <<>>]
JAbsent == [k |-> "absent", s |-> <<>>]

Get(v, default) == IF v.k = "absent" THEN default ELSE v

(***************************************************************************)
(* The store.                                                              *)
(***************************************************************************)
(* The columns that init_database declares, table by table. *)
RiversColumns ==
    {"id", "name", "location", "region", "latitude", "longitude",
     "difficulty_class", "length_miles", "typical_flow_min",
     "typical_flow_max", "put_in_location", "take_out_location",
     "shuttle_info", "parking_details", "best_seasons", "water_level_source",
     "hazards", "portages", "emergency_contacts", "description",
     "personal_rating", "date_added", "last_updated", "notes", "tags"}

RiverDocumentsColumns ==
    {"id", "river_id", "file_name", "file_path", "file_type", "file_size",
     "description", "upload_date"}

TripLogsColumns ==
    {"id", "river_id", "trip_date", "companions", "water_level",
     "weather_conditions", "flow_rate", "duration_hours",
     "difficulty_experienced", "highlights", "challenges", "gear_used",
     "trip_rating", "notes", "created_date"}

RiverTagsColumns == {"id", "river_id", "tag"}

(* A database file that holds nothing: no table, no row. *)
BlankFile ==
    [rivers |-> {}, trip_logs |-> {}, river_documents |-> {},
     seq_rivers |-> 0, seq_trip_logs |-> 0, seq_river_documents |-> 0,
     schema |-> [table \in {} |-> {}]]

(* CREATE TABLE IF NOT EXISTS: a table that exists is left as it is. *)
CreateTableIfNotExists(schema, table, columns) ==
    IF table \in DOMAIN schema THEN schema ELSE schema @@ (table :> columns)

(* ALTER TABLE ... ADD COLUMN raises OperationalError when the table has   *)
(* the column; init_database catches it and goes on.                       *)
AddColumn(schema, table, column) ==
    IF column \in schema[table]
    THEN [raised |-> TRUE, schema |-> schema]
    ELSE [raised |-> FALSE,
          schema |-> [schema EXCEPT ![table] = @ \cup {column}]]

(* init_database with DROP TABLE before every CREATE TABLE. *)
init_database_Recreating(d) ==
    [BlankFile EXCEPT
        !.schema = ("rivers" :> RiversColumns)
                     @@ ("river_documents" :> RiverDocumentsColumns)
                     @@ ("trip_logs" :> TripLogsColumns)
                     @@ ("river_tags" :> RiverTagsColumns)]

init_database(d) ==
    LET created ==
            CreateTableIfNotExists(
              CreateTableIfNotExists(
                CreateTableIfNotExists(
                  CreateTableIfNotExists(d.schema, "rivers", RiversColumns),
                  "river_documents", RiverDocumentsColumns),
                "trip_logs", TripLogsColumns),
              "river_tags", RiverTagsColumns)
    IN  [d EXCEPT !.schema = AddColumn(created, "rivers", "tags").schema]

(* The store as DatabaseManager() leaves a file it has just created. *)
EmptyDb == init_database(BlankFile)

RiverIds(d) == {r.id : r \in d.rivers}

(***************************************************************************)
(* Byte order of the characters used, for ORDER BY under SQLite's default  *)
(* BINARY collation.                                                       *)
(***************************************************************************)
Code(c) ==
    CASE c = " " -> 32 [] c = "1" -> 49 [] c = "2" -> 50 [] c = "O" -> 79
      [] c = "T" -> 84 [] c = "g" -> 103 [] c = "o" -> 111 [] c = "t" -> 116
      [] c = "w" -> 119 [] OTHER -> 124

RECURSIVE TextLess(_, _)
TextLess(a, b) ==
    IF b = <<>> THEN FALSE
    ELSE IF a = <<>> THEN TRUE
    ELSE IF Code(Head(a)) # Code(Head(b)) THEN Code(Head(a)) < Code(Head(b))
    ELSE TextLess(Tail(a), Tail(b))

(***************************************************************************)
(* DatabaseManager.  An operation that can raise returns raised = TRUE and *)
(* the store unchanged (the INSERT failed, nothing was committed).         *)
(***************************************************************************)
Bindable(v) == v.k \in {"str", "null"}

(* add_river on a table whose id is INTEGER PRIMARY KEY without            *)
(* AUTOINCREMENT: the new id is one more than the largest id in the table. *)
DatabaseManager_add_river_MaxRowid(d, river_data, now) ==
    LET name == Get(river_data.name, JStr(<<>>))
        location == Get(river_data.location, JStr(<<>>))
        region == Get(river_data.region, JStr(<<>>))
        river_id == 1 + Cardinality({i \in 1..d.seq_rivers :
                                       \E r \in d.rivers : r.id >= i})
    IN  IF ~Bindable(name) \/ ~Bindable(location) \/ ~Bindable(region)
           \/ name.k = "null" \/ location.k = "null"
        THEN [raised |-> TRUE, db |-> d, id |-> 0]
        ELSE [raised |-> FALSE,
              db |-> [d EXCEPT
                        !.rivers = @ \cup
                            {[id |-> river_id, name |-> name.s,
                              location |-> location.s, region |-> region,
                              date_added |-> now, last_updated |-> now]},
                        !.seq_rivers = river_id],
              id |-> river_id]

(* add_river storing the normalized name: lower-cased and trimmed. *)
DatabaseManager_add_river_Normalizing(d, river_data, now) ==
    LET name == Get(river_data.name, JStr(<<>>))
        location == Get(river_data.location, JStr(<<>>))
        region == Get(river_data.region, JStr(<<>>))
        river_id == d.seq_rivers + 1
    IN  IF ~Bindable(name) \/ ~Bindable(location) \/ ~Bindable(region)
           \/ name.k = "null" \/ location.k = "null"
        THEN [raised |-> TRUE, db |-> d, id |-> 0]
        ELSE [raised |-> FALSE,
              db |-> [d EXCEPT
                        !.rivers = @ \cup
                            {[id |-> river_id, name |-> strip(lower(name.s)),
                              location |-> location.s, region |-> region,
                              date_added |-> now, last_updated |-> now]},
                        !.seq_rivers = river_id],
              id |-> river_id]

DatabaseManager_add_river(d, river_data, now) ==
    LET name == Get(river_data.name, JStr(<<>>))
        location == Get(river_data.location, JStr(<<>>))
        region == Get(river_data.region, JStr(<<>>))
        river_id == d.seq_rivers + 1
    IN  IF ~Bindable(name) \/ ~Bindable(location) \/ ~Bindable(region)
           \/ name.k = "null" \/ location.k = "null"
        THEN [raised |-> TRUE, db |-> d, id |-> 0]
        ELSE [raised |-> FALSE,
              db |-> [d EXCEPT
                        !.rivers = @ \cup
                            {[id |-> river_id, name |-> name.s,
                              location |-> location.s, region |-> region,
                              date_added |-> now, last_updated |-> now]},
                        !.seq_rivers = river_id],
              id |-> river_id]

RECURSIVE SortRivers(_)
SortRivers(S) ==
    IF S = {} THEN <<>>
    ELSE LET first == CHOOSE r \in S : \A q \in S \ {r} :
                          \/ TextLess(r.name, q.name)
                          \/ (r.name = q.name /\ r.id < q.id)
         IN  <<first>> \o SortRivers(S \ {first})

get_all_rivers(d) == SortRivers(d.rivers)

get_river_by_id(d, river_id) == {r \in d.rivers : r.id = river_id}

(* update_river written as INSERT OR REPLACE: the row is deleted and       *)
(* inserted again, and date_added takes its default anew.                  *)
DatabaseManager_update_river_Replace(d, river_id, river_data, now) ==
    LET name == Get(river_data.name, JStr(<<>>))
        location == Get(river_data.location, JStr(<<>>))
        region == Get(river_data.region, JStr(<<>>))
    IN  [d EXCEPT !.rivers =
            {IF r.id = river_id
               THEN [r EXCEPT !.name = name.s, !.location = location.s,
                              !.region = region, !.date_added = now,
                              !.last_updated = now]
               ELSE r : r \in @}]

DatabaseManager_update_river(d, river_id, river_data, now) ==
    LET name == Get(river_data.name, JStr(<<>>))
        location == Get(river_data.location, JStr(<<>>))
        region == Get(river_data.region, JStr(<<>>))
    IN  [d EXCEPT !.rivers =
            {IF r.id = river_id
               THEN [r EXCEPT !.name = name.s, !.location = location.s,
                              !.region = region, !.last_updated = now]
               ELSE r : r \in @}]

DatabaseManager_delete_river(d, river_id) ==
    [d EXCEPT !.rivers = {r \in @ : r.id # river_id}]

add_document(d, river_id, file_path, description) ==
    [d EXCEPT
       !.river_documents = @ \cup
           {[id |-> d.seq_river_documents + 1, river_id |-> river_id,
             file_path |-> file_path, description |-> description]},
       !.seq_river_documents = @ + 1]

get_river_documents(d, river_id) ==
    {x \in d.river_documents : x.river_id = river_id}

DatabaseManager_add_trip_log(d, trip_data) ==
    LET trip_date == Get(trip_data.trip_date, JNull)
        trip_id == d.seq_trip_logs + 1
    IN  IF trip_date.k = "null"
        THEN [raised |-> TRUE, db |-> d, id |-> 0]
        ELSE [raised |-> FALSE,
              db |-> [d EXCEPT
                        !.trip_logs = @ \cup
                            {[id |-> trip_id, river_id |-> trip_data.river_id,
                              trip_date |-> trip_date.s]},
                        !.seq_trip_logs = trip_id],
              id |-> trip_id]

DatabaseManager_update_trip_log(d, trip_id, trip_data) ==
    LET trip_date == Get(trip_data.trip_date, JNull)
    IN  [d EXCEPT !.trip_logs =
            {IF t.id = trip_id
               THEN [t EXCEPT !.river_id = trip_data.river_id,
                              !.trip_date = trip_date.s]
               ELSE t : t \in @}]

DatabaseManager_delete_trip_log(d, trip_id) ==
    [d EXCEPT !.trip_logs = {t \in @ : t.id # trip_id}]

(* SELECT t.*, r.name AS river_name FROM trip_logs t JOIN rivers r ...:    *)
(* the inner join drops every trip whose river_id matches no river.        *)
JoinedTrips(d, river_id) ==
    {[id |-> t.id, river_id |-> t.river_id, trip_date |-> t.trip_date,
      river_name |-> r.name] :
        <<t, r>> \in {p \in d.trip_logs \X d.rivers :
                        /\ p[1].river_id = p[2].id
                        /\ (river_id = 0 \/ p[1].river_id = river_id)}}

(* ORDER BY t.trip_date without DESC: the oldest trip first. *)
RECURSIVE SortTrips_Ascending(_)
SortTrips_Ascending(S) ==
    IF S = {} THEN <<>>
    ELSE LET first == CHOOSE t \in S : \A q \in S \ {t} :
                          \/ TextLess(t.trip_date, q.trip_date)
                          \/ (t.trip_date = q.trip_date /\ t.id < q.id)
         IN  <<first>> \o SortTrips_Ascending(S \ {first})

(* ORDER BY t.trip_date DESC.  trip_logs is scanned in rowid order (the    *)
(* river of each row is looked up by its primary key) and rows of equal    *)
(* trip_date leave the sorter in the order of the scan.                    *)
RECURSIVE SortTrips(_)
SortTrips(S) ==
    IF S = {} THEN <<>>
    ELSE LET first == CHOOSE t \in S : \A q \in S \ {t} :
                          \/ TextLess(q.trip_date, t.trip_date)
                          \/ (t.trip_date = q.trip_date /\ t.id < q.id)
         IN  <<first>> \o SortTrips(S \ {first})

get_trip_logs(d, river_id) == SortTrips(JoinedTrips(d, river_id))

get_trip_log_by_id(d, trip_id) ==
    {t \in JoinedTrips(d, 0) : t.id = trip_id}

(***************************************************************************)
(* Interchange documents.  A river or trip entry of a document is a JSON   *)
(* value: an object (obj = TRUE) with its keys, or anything else.  id = 0  *)
(* and a date of -1 stand for an absent key.  A document is parseable or   *)
(* not, an object or not; its rivers value is absent, an array, an object  *)
(* (iterated by its keys), a string (iterated by its characters), null or  *)
(* a number; its trips value is absent or an array.                        *)
(***************************************************************************)
RiverRec(id, name, location, region, date_added, last_updated) ==
    [obj |-> TRUE, id |-> id, name |-> name, location |-> location,
     region |-> region, date_added |-> date_added,
     last_updated |-> last_updated]

TripRec(id, river_id, river_name, trip_date) ==
    [obj |-> TRUE, id |-> id, river_id |-> river_id,
     river_name |-> river_name, trip_date |-> trip_date]

NotAnObject == [obj |-> FALSE]

Doc(rivers_kind, rivers_items, trips_kind, trips_items) ==
    [parseable |-> TRUE, dict |-> TRUE,
     rivers |-> [k |-> rivers_kind, items |-> rivers_items],
     trips |-> [k |-> trips_kind, items |-> trips_items]]

(* f"{name.lower().strip()}|{location.lower().strip()}" *)
Identifier(name, location) ==
    strip(lower(name)) \o <<"|">> \o strip(lower(location))

(* str(x) inside an f-string: a string is itself, None is "None". *)
PyStr(v) == IF v.k = "null" THEN <<"N", "o", "n", "e">> ELSE v.s

(* f"{river_id}|{trip_date}": the id is a decimal numeral, so the text is  *)
(* one-to-one with the pair of the id and the text of the date.            *)
TripIdentifier(river_id, trip_date_text) == <<river_id, trip_date_text>>

(***************************************************************************)
(* MainWindow.export_data: the document written for the current store.     *)
(***************************************************************************)
ExportRivers(d) ==
    LET rows == get_all_rivers(d)
    IN  [i \in 1..Len(rows) |->
            RiverRec(rows[i].id, JStr(rows[i].name), JStr(rows[i].location),
                     rows[i].region, rows[i].date_added,
                     rows[i].last_updated)]

ExportTrips(d) ==
    LET rows == get_trip_logs(d, 0)
    IN  [i \in 1..Len(rows) |->
            TripRec(rows[i].id, rows[i].river_id, JStr(rows[i].river_name),
                    JStr(rows[i].trip_date))]

export_data(d, flag) ==
    IF flag THEN Doc("array", ExportRivers(d), "array", ExportTrips(d))
    ELSE Doc("array", ExportRivers(d), "absent", <<>>)

(* The dict that export_data hands to json.dump, as a function of its      *)
(* keys; export_date is the second at which it was built.                  *)
ExportObject(d, flag, now) ==
    [key \in {"rivers", "export_date", "includes_trip_logs"}
               \cup (IF flag THEN {"trips"} ELSE {}) |->
        CASE key = "rivers" -> ExportRivers(d)
          [] key = "export_date" -> now
          [] key = "includes_trip_logs" -> flag
          [] key = "trips" -> ExportTrips(d)]

(***************************************************************************)
(* MainWindow.import_rivers.  The loop state: the store, the identifier    *)
(* set, the two counters, whether an exception has left the loop, and, as  *)
(* a record of what happened, the outcome of every entry:                  *)
(*   imported | duplicate (skipped) | failed (add raised: skipped) |       *)
(*   raised (the entry raised outside the try) | unprocessed.              *)
(***************************************************************************)
ExistingIdentifiers(d) == {Identifier(r.name, r.location) : r \in d.rivers}

StripRiver(river_data) ==
    [river_data EXCEPT !.id = 0, !.date_added = -1, !.last_updated = -1]

(* import_rivers_step with an except clause that only prints: an entry the *)
(* store rejects is counted neither as imported nor as skipped.            *)
import_rivers_step_FailureUncounted(acc, river_data, now) ==
    IF acc.raised THEN [acc EXCEPT !.outcomes = Append(@, "unprocessed")]
    ELSE IF ~river_data.obj
    THEN [acc EXCEPT !.raised = TRUE, !.outcomes = Append(@, "raised")]
    ELSE
      LET name == Get(river_data.name, JStr(<<>>))
          location == Get(river_data.location, JStr(<<>>))
      IN  IF name.k # "str" \/ location.k # "str"
          THEN [acc EXCEPT !.raised = TRUE, !.outcomes = Append(@, "raised")]
          ELSE
            LET identifier == Identifier(name.s, location.s)
                added == DatabaseManager_add_river(
                             acc.db, StripRiver(river_data), now)
            IN  IF identifier \in acc.ids
                THEN [acc EXCEPT !.skipped = @ + 1,
                                 !.outcomes = Append(@, "duplicate")]
                ELSE IF added.raised
                THEN [acc EXCEPT !.outcomes = Append(@, "failed")]
                ELSE [acc EXCEPT !.db = added.db,
                                 !.ids = @ \cup {identifier},
                                 !.imported = @ + 1,
                                 !.outcomes = Append(@, "imported")]

import_rivers_step(acc, river_data, now) ==
    IF acc.raised THEN [acc EXCEPT !.outcomes = Append(@, "unprocessed")]
    ELSE IF ~river_data.obj
    THEN [acc EXCEPT !.raised = TRUE, !.outcomes = Append(@, "raised")]
    ELSE
      LET name == Get(river_data.name, JStr(<<>>))
          location == Get(river_data.location, JStr(<<>>))
      IN  IF name.k # "str" \/ location.k # "str"
          THEN [acc EXCEPT !.raised = TRUE, !.outcomes = Append(@, "raised")]
          ELSE
            LET identifier == Identifier(name.s, location.s)
                added == DatabaseManager_add_river(
                             acc.db, StripRiver(river_data), now)
            IN  IF identifier \in acc.ids
                THEN [acc EXCEPT !.skipped = @ + 1,
                                 !.outcomes = Append(@, "duplicate")]
                ELSE IF added.raised
                THEN [acc EXCEPT !.skipped = @ + 1,
                                 !.outcomes = Append(@, "failed")]
                ELSE [acc EXCEPT !.db = added.db,
                                 !.ids = @ \cup {identifier},
                                 !.imported = @ + 1,
                                 !.outcomes = Append(@, "imported")]

RECURSIVE import_rivers_loop(_, _, _)
import_rivers_loop(acc, rivers_data, now) ==
    IF rivers_data = <<>> THEN acc
    ELSE import_rivers_loop(import_rivers_step(acc, Head(rivers_data), now),
                            Tail(rivers_data), now)

import_rivers(d, rivers_data, now) ==
    import_rivers_loop(
        [db |-> d, ids |-> ExistingIdentifiers(d), imported |-> 0,
         skipped |-> 0, raised |-> FALSE, outcomes |-> <<>>],
        rivers_data, now)

(***************************************************************************)
(* MainWindow.import_trips.                                                *)
(***************************************************************************)
(* RiverNameToId with the keys left as stored: .lower().strip() forgotten. *)
RiverNameToId_RawKeys(d) ==
    [key \in {r.name : r \in d.rivers} |->
        (CHOOSE r \in d.rivers : r.name = key).id]

(* {river['name'].lower().strip(): river['id'] for river in current_rivers}*)
(* a later river of the list replaces an earlier one with the same key.    *)
RiverNameToId(d) ==
    LET rows == get_all_rivers(d)
        keys == {strip(lower(rows[i].name)) : i \in 1..Len(rows)}
    IN  [key \in keys |->
            LET last_i == CHOOSE i \in 1..Len(rows) :
                    /\ strip(lower(rows[i].name)) = key
                    /\ \A j \in 1..Len(rows) :
                         strip(lower(rows[j].name)) = key => j <= i
            IN  rows[last_i].id]

ExistingTripIdentifiers(d) ==
    {TripIdentifier(t.river_id, t.trip_date) : t \in JoinedTrips(d, 0)}

(* import_trips_step adding the trip under the river_id of the document.   *)
import_trips_step_DocumentRiverId(acc, trip_data) ==
    IF acc.raised THEN [acc EXCEPT !.outcomes = Append(@, "unprocessed")]
    ELSE IF ~trip_data.obj
    THEN [acc EXCEPT !.raised = TRUE, !.outcomes = Append(@, "raised")]
    ELSE
      LET river_name == Get(trip_data.river_name, JStr(<<>>))
      IN  IF river_name.k # "str"
          THEN [acc EXCEPT !.raised = TRUE, !.outcomes = Append(@, "raised")]
          ELSE IF strip(lower(river_name.s)) \notin DOMAIN acc.river_name_to_id
          THEN [acc EXCEPT !.skipped = @ + 1,
                           !.outcomes = Append(@, "no_river")]
          ELSE
            LET new_river_id == acc.river_name_to_id[strip(lower(river_name.s))]
                trip_date == Get(trip_data.trip_date, JStr(<<>>))
                identifier == TripIdentifier(new_river_id, PyStr(trip_date))
                import_trip == [trip_data EXCEPT !.id = 0,
                                                 !.river_name = JAbsent]
                added == DatabaseManager_add_trip_log(acc.db, import_trip)
            IN  IF identifier \in acc.ids
                THEN [acc EXCEPT !.skipped = @ + 1,
                                 !.outcomes = Append(@, "duplicate")]
                ELSE IF added.raised
                THEN [acc EXCEPT !.skipped = @ + 1,
                                 !.outcomes = Append(@, "failed")]
                ELSE [acc EXCEPT !.db = added.db,
                                 !.ids = @ \cup {identifier},
                                 !.imported = @ + 1,
                                 !.outcomes = Append(@, "imported")]

import_trips_step(acc, trip_data) ==
    IF acc.raised THEN [acc EXCEPT !.outcomes = Append(@, "unprocessed")]
    ELSE IF ~trip_data.obj
    THEN [acc EXCEPT !.raised = TRUE, !.outcomes = Append(@, "raised")]
    ELSE
      LET river_name == Get(trip_data.river_name, JStr(<<>>))
      IN  IF river_name.k # "str"
          THEN [acc EXCEPT !.raised = TRUE, !.outcomes = Append(@, "raised")]
          ELSE IF strip(lower(river_name.s)) \notin DOMAIN acc.river_name_to_id
          THEN [acc EXCEPT !.skipped = @ + 1,
                           !.outcomes = Append(@, "no_river")]
          ELSE
            LET new_river_id == acc.river_name_to_id[strip(lower(river_name.s))]
                trip_date == Get(trip_data.trip_date, JStr(<<>>))
                identifier == TripIdentifier(new_river_id, PyStr(trip_date))
                import_trip == [trip_data EXCEPT !.river_id = new_river_id,
                                                 !.id = 0,
                                                 !.river_name = JAbsent]
                added == DatabaseManager_add_trip_log(acc.db, import_trip)
            IN  IF identifier \in acc.ids
                THEN [acc EXCEPT !.skipped = @ + 1,
                                 !.outcomes = Append(@, "duplicate")]
                ELSE IF added.raised
                THEN [acc EXCEPT !.skipped = @ + 1,
                                 !.outcomes = Append(@, "failed")]
                ELSE [acc EXCEPT !.db = added.db,
                                 !.ids = @ \cup {identifier},
                                 !.imported = @ + 1,
                                 !.outcomes = Append(@, "imported")]

RECURSIVE import_trips_loop(_, _)
import_trips_loop(acc, trips_data) ==
    IF trips_data = <<>> THEN acc
    ELSE import_trips_loop(import_trips_step(acc, Head(trips_data)),
                           Tail(trips_data))

import_trips(d, trips_data) ==
    import_trips_loop(
        [db |-> d, river_name_to_id |-> RiverNameToId(d),
         ids |-> ExistingTripIdentifiers(d), imported |-> 0, skipped |-> 0,
         raised |-> FALSE, outcomes |-> <<>>],
        trips_data)

(***************************************************************************)
(* MainWindow.import_data, after the file dialog returned a path: what the *)
(* handler leaves in the store and what it reports.  status is             *)
(*   invalid_json  (json.load raised JSONDecodeError)                      *)
(*   invalid_file  (not an object, or no rivers key)                       *)
(*   error         (any other exception: "Failed to import data")          *)
(*   completed     (the summary box).                                      *)
(* Every add commits on its own, so what was added before an exception     *)
(* stays.                                                                  *)
(***************************************************************************)
ImportReport(d, status, ri, rs, ti, ts, ro, to) ==
    [db |-> d, status |-> status, rivers_imported |-> ri,
     rivers_skipped |-> rs, trips_imported |-> ti, trips_skipped |-> ts,
     river_outcomes |-> ro, trip_outcomes |-> to]

Iterable(v) == v.k \in {"array", "object", "string"}

(* import_data reading the trips with import_data['trips']: a document    *)
(* without the key raises KeyError before any river is imported.           *)
import_data_TripsRequired(d, doc, flag, now) ==
    IF ~doc.parseable
    THEN ImportReport(d, "invalid_json", 0, 0, 0, 0, <<>>, <<>>)
    ELSE IF ~doc.dict \/ doc.rivers.k = "absent"
    THEN ImportReport(d, "invalid_file", 0, 0, 0, 0, <<>>, <<>>)
    ELSE IF doc.trips.k = "absent" \/ ~Iterable(doc.rivers)
    THEN ImportReport(d, "error", 0, 0, 0, 0, <<>>, <<>>)
    ELSE
      LET r == import_rivers(d, doc.rivers.items, now)
          t == import_trips(r.db, doc.trips.items)
      IN  IF r.raised
          THEN ImportReport(r.db, "error", 0, 0, 0, 0, r.outcomes, <<>>)
          ELSE IF doc.trips.items = <<>>
          THEN ImportReport(r.db, "completed", r.imported, r.skipped,
                            0, 0, r.outcomes, <<>>)
          ELSE IF ~flag
          THEN ImportReport(r.db, "completed", r.imported, r.skipped,
                            0, Len(doc.trips.items), r.outcomes, <<>>)
          ELSE IF t.raised
          THEN ImportReport(t.db, "error", 0, 0, 0, 0, r.outcomes, t.outcomes)
          ELSE ImportReport(t.db, "completed", r.imported, r.skipped,
                            t.imported, t.skipped, r.outcomes, t.outcomes)

import_data(d, doc, flag, now) ==
    IF ~doc.parseable
    THEN ImportReport(d, "invalid_json", 0, 0, 0, 0, <<>>, <<>>)
    ELSE IF ~doc.dict \/ doc.rivers.k = "absent"
    THEN ImportReport(d, "invalid_file", 0, 0, 0, 0, <<>>, <<>>)
    ELSE
      LET rivers_data == doc.rivers.items
          trips_data == IF doc.trips.k = "absent" THEN <<>> ELSE doc.trips.items
          r == import_rivers(d, rivers_data, now)
          t == import_trips(r.db, trips_data)
      IN  IF ~Iterable(doc.rivers)
          THEN ImportReport(d, "error", 0, 0, 0, 0, <<>>, <<>>)
          ELSE IF r.raised
          THEN ImportReport(r.db, "error", 0, 0, 0, 0, r.outcomes, <<>>)
          ELSE IF flag /\ trips_data # <<>>
          THEN IF t.raised
               THEN ImportReport(t.db, "error", 0, 0, 0, 0,
                                 r.outcomes, t.outcomes)
               ELSE ImportReport(t.db, "completed", r.imported, r.skipped,
                                 t.imported, t.skipped, r.outcomes, t.outcomes)
          ELSE IF ~flag /\ trips_data # <<>>
          THEN ImportReport(r.db, "completed", r.imported, r.skipped,
                            0, Len(trips_data), r.outcomes, <<>>)
          ELSE ImportReport(r.db, "completed", r.imported, r.skipped,
                            0, 0, r.outcomes, <<>>)

(***************************************************************************)
(* Inputs.                                                                 *)
(***************************************************************************)
(* What the user can type into the name and location fields of the form.   *)
RawNames == {<<>>, <<"O">>, <<"o", " ">>, <<"g">>}
RawLocations == {<<" ">>, <<"T">>, <<"w">>}
TripDates == {<<"1">>, <<"2">>}
FileNames == {"map.pdf"}

RiverRecs ==
    { RiverRec(1, JStr(<<"o", " ">>), JStr(<<"t">>), JStr(<<>>), 0, 0),
      RiverRec(1, JStr(<<"g">>), JStr(<<"w">>), JAbsent, -1, -1),
      RiverRec(2, JAbsent, JStr(<<"T">>), JStr(<<>>), 0, 0),
      RiverRec(2, JNull, JStr(<<"T">>), JStr(<<>>), 0, 0),
      RiverRec(0, JStr(<<"O">>), JStr(<<"T">>), [k |-> "array", s |-> <<>>],
               -1, -1),
      NotAnObject }

TripRecs ==
    { TripRec(1, 1, JStr(<<"o", " ">>), JStr(<<"1">>)),
      TripRec(2, 2, JStr(<<"g">>), JStr(<<"1">>)),
      TripRec(1, 1, JStr(<<"O">>), JNull),
      TripRec(1, 1, JNull, JStr(<<"2">>)) }

RECURSIVE SeqsUpTo(_, _)
SeqsUpTo(S, n) ==
    IF n = 0 THEN {<<>>}
    ELSE LET shorter == SeqsUpTo(S, n - 1)
         IN  shorter \cup {Append(q, x) : q \in shorter, x \in S}

ArrayDocs ==
    {Doc("array", x[1], IF x[2] = <<>> THEN "absent" ELSE "array", x[2]) :
        x \in {y \in SeqsUpTo(RiverRecs, MaxRecords)
                      \X SeqsUpTo(TripRecs, MaxRecords) :
                  Len(y[1]) + Len(y[2]) <= MaxRecords}}
    \cup {Doc("array", <<>>, "array", <<>>)}

OddDocs ==
    LET trips == {<<>>, <<TripRec(1, 1, JStr(<<"o", " ">>), JStr(<<"1">>))>>}
    IN  {[Doc("array", <<>>, "absent", <<>>) EXCEPT !.parseable = FALSE],
         [Doc("array", <<>>, "absent", <<>>) EXCEPT !.dict = FALSE]}
        \cup {Doc(k, <<>>, IF ts = <<>> THEN "absent" ELSE "array", ts) :
                 k \in {"absent", "null", "number", "object", "string"},
                 ts \in trips}
        \cup {Doc(k, <<NotAnObject>>, IF ts = <<>> THEN "absent" ELSE "array",
                  ts) :
                 k \in {"object", "string"}, ts \in trips}

Docs == ArrayDocs \cup OddDocs

(***************************************************************************)
(* State.                                                                  *)
(*   db                 the three tables and their AUTOINCREMENT sequences *)
(*   files              the paths present in the attachments directory     *)
(*   clock              the second CURRENT_TIMESTAMP / datetime.now() read *)
(*   include_trip_logs  the Import/Export Trip Logs setting                *)
(*   trace              under TraceSpec and BatchSpec, the import that has *)
(*                      just run: its document, the store before it, what  *)
(*                      it reported and the outcome of every entry; under  *)
(*                      AttachSpec, the attachment handler that has just   *)
(*                      run; NoTrace otherwise                             *)
(***************************************************************************)
NoTrace == [on |-> FALSE]

Init ==
    /\ db = EmptyDb
    /\ files = {}
    /\ clock = 0
    /\ include_trip_logs = TRUE
    /\ trace = NoTrace

Tick ==
    /\ clock < MaxClock
    /\ clock' = clock + 1
    /\ UNCHANGED <<db, files, include_trip_logs, trace>>

toggle_trip_logs_setting ==
    /\ include_trip_logs' = ~include_trip_logs
    /\ UNCHANGED <<db, files, clock, trace>>

(* RiverFormDialog.get_river_data: every text field is stripped. *)
get_river_data(raw_name, raw_location) ==
    [name |-> JStr(strip(raw_name)), location |-> JStr(strip(raw_location)),
     region |-> JStr(<<>>)]

(* "Name and Location are required!" *)
Validated(river_data) ==
    river_data.name.s # <<>> /\ river_data.location.s # <<>>

MainWindow_add_river ==
    \E raw_name \in RawNames, raw_location \in RawLocations :
        LET river_data == get_river_data(raw_name, raw_location)
        IN  /\ IF ~Validated(river_data)
               THEN db' = db
               ELSE db' = DatabaseManager_add_river(db, river_data, clock).db
            /\ UNCHANGED <<files, clock, include_trip_logs, trace>>

MainWindow_edit_river ==
    \E row \in db.rivers, raw_name \in RawNames, raw_location \in RawLocations :
        LET updated_data == get_river_data(raw_name, raw_location)
        IN  /\ IF ~Validated(updated_data)
               THEN db' = db
               ELSE db' = DatabaseManager_update_river(
                              db, row.id, updated_data, clock)
            /\ UNCHANGED <<files, clock, include_trip_logs, trace>>

MainWindow_delete_river ==
    \E row \in db.rivers :
        /\ db' = DatabaseManager_delete_river(db, row.id)
        /\ UNCHANGED <<files, clock, include_trip_logs, trace>>

(* TripLogDialog.get_trip_data: the river of the combo box, the date of   *)
(* the date editor.                                                        *)
get_trip_data(river_id, date) ==
    [river_id |-> river_id, trip_date |-> JStr(date)]

MainWindow_add_trip_log ==
    /\ db.rivers # {}
    /\ \E river \in db.rivers, date \in TripDates :
        db' = DatabaseManager_add_trip_log(db, get_trip_data(river.id, date)).db
    /\ UNCHANGED <<files, clock, include_trip_logs, trace>>

MainWindow_edit_trip_log ==
    /\ \E row \in JoinedTrips(db, 0), river \in db.rivers, date \in TripDates :
        db' = DatabaseManager_update_trip_log(
                  db, row.id, get_trip_data(river.id, date))
    /\ UNCHANGED <<files, clock, include_trip_logs, trace>>

MainWindow_delete_trip_log ==
    /\ \E row \in JoinedTrips(db, 0) :
        db' = DatabaseManager_delete_trip_log(db, row.id)
    /\ UNCHANGED <<files, clock, include_trip_logs, trace>>

(* What trace holds after an attachment handler: the handler, its inputs,  *)
(* (io_ok: whether its copy2 or os.remove call succeeded; ok: whether the   *)
(* description prompt was accepted), the store and the directory before    *)
(* it, and the message box it showed (success | error | none).             *)
AttachmentTrace(op, file_path, io_ok, ok, message) ==
    [on |-> TRUE, op |-> op, file_path |-> file_path, io_ok |-> io_ok,
     ok |-> ok, message |-> message, before |-> db, files_before |-> files]

(* f"{timestamp}_{file_name}" in the attachments directory: the timestamp  *)
(* has the resolution of a second.                                         *)
NewFilePath(now, file_name) == <<now, file_name>>

(* AttachStep writing the metadata row before it copies the file. *)
AttachStep_RowFirst(river, file_name, copy_ok, ok, traced) ==
    LET new_file_path == NewFilePath(clock, file_name)
        message == IF ~copy_ok THEN "error" ELSE IF ok THEN "success" ELSE "none"
    IN  /\ files' = IF copy_ok THEN files \cup {new_file_path} ELSE files
        /\ db' = IF ok THEN add_document(db, river.id, new_file_path, file_name)
                 ELSE db
        /\ trace' = IF traced
                    THEN AttachmentTrace("add_file", new_file_path, copy_ok,
                                         ok, message)
                    ELSE NoTrace
        /\ UNCHANGED <<clock, include_trip_logs>>

(* FileAttachmentWidget.add_file for the river shown in the details pane.  *)
(* copy_ok: shutil.copy2 succeeded; ok: the description prompt was         *)
(* accepted.  A copy onto an existing path overwrites that file.           *)
AttachStep(river, file_name, copy_ok, ok, traced) ==
    LET new_file_path == NewFilePath(clock, file_name)
        message == IF ~copy_ok THEN "error" ELSE IF ok THEN "success" ELSE "none"
    IN  /\ IF ~copy_ok
           THEN UNCHANGED <<db, files>>
           ELSE /\ files' = files \cup {new_file_path}
                /\ IF ok
                   THEN db' = add_document(db, river.id, new_file_path,
                                           file_name)
                   ELSE db' = db
        /\ trace' = IF traced
                    THEN AttachmentTrace("add_file", new_file_path, copy_ok,
                                         ok, message)
                    ELSE NoTrace
        /\ UNCHANGED <<clock, include_trip_logs>>

add_file ==
    \E river \in db.rivers, file_name \in FileNames, copy_ok \in BOOLEAN,
       ok \in BOOLEAN :
        AttachStep(river, file_name, copy_ok, ok, FALSE)

(* RemoveStep restoring the metadata row when os.remove fails. *)
RemoveStep_Restoring(doc_data, remove_ok, traced) ==
    LET failed == doc_data.file_path \in files /\ ~remove_ok
    IN  /\ db' = IF failed THEN db
                 ELSE [db EXCEPT !.river_documents = @ \ {doc_data}]
        /\ files' = IF failed THEN files ELSE files \ {doc_data.file_path}
        /\ trace' = IF traced
                    THEN AttachmentTrace("remove_file", doc_data.file_path,
                                         remove_ok, TRUE,
                                         IF failed THEN "error" ELSE "success")
                    ELSE NoTrace
        /\ UNCHANGED <<clock, include_trip_logs>>

(* FileAttachmentWidget.remove_file for an entry of the list, confirmed.   *)
(* remove_ok: os.remove succeeded.  The DELETE is committed before the     *)
(* file is looked at.                                                      *)
RemoveStep(doc_data, remove_ok, traced) ==
    LET failed == doc_data.file_path \in files /\ ~remove_ok
    IN  /\ db' = [db EXCEPT !.river_documents = @ \ {doc_data}]
        /\ files' = IF failed THEN files ELSE files \ {doc_data.file_path}
        /\ trace' = IF traced
                    THEN AttachmentTrace("remove_file", doc_data.file_path,
                                         remove_ok, TRUE,
                                         IF failed THEN "error" ELSE "success")
                    ELSE NoTrace
        /\ UNCHANGED <<clock, include_trip_logs>>

remove_file ==
    \E river \in db.rivers, remove_ok \in BOOLEAN :
      \E doc_data \in get_river_documents(db, river.id) :
        RemoveStep(doc_data, remove_ok, FALSE)

(* ImportStep loading the document into an emptied store. *)
ImportStep_Replacing(doc, traced) ==
    LET res == import_data(EmptyDb, doc, include_trip_logs, clock)
    IN  /\ db' = res.db
        /\ trace' = IF traced
                    THEN [on |-> TRUE, doc |-> doc, flag |-> include_trip_logs,
                          before |-> db, report |-> [res EXCEPT !.db = 0]]
                    ELSE NoTrace
        /\ UNCHANGED <<files, clock, include_trip_logs>>

(* ImportStep reconciling the trips whatever the setting says. *)
ImportStep_FlagIgnored(doc, traced) ==
    LET res == import_data(db, doc, TRUE, clock)
    IN  /\ db' = res.db
        /\ trace' = IF traced
                    THEN [on |-> TRUE, doc |-> doc, flag |-> include_trip_logs,
                          before |-> db, report |-> [res EXCEPT !.db = 0]]
                    ELSE NoTrace
        /\ UNCHANGED <<files, clock, include_trip_logs>>

ImportStep(doc, traced) ==
    LET res == import_data(db, doc, include_trip_logs, clock)
    IN  /\ db' = res.db
        /\ trace' = IF traced
                    THEN [on |-> TRUE, doc |-> doc, flag |-> include_trip_logs,
                          before |-> db, report |-> [res EXCEPT !.db = 0]]
                    ELSE NoTrace
        /\ UNCHANGED <<files, clock, include_trip_logs>>

MainWindow_import_data == \E doc \in Docs : ImportStep(doc, FALSE)

(***************************************************************************)
(* The bound of a specification: how many rows each table ever receives.   *)
(* It is conjoined to the four handlers that insert rows.                  *)
(***************************************************************************)
Within(max_rivers, max_trips, max_documents) ==
    /\ db.seq_rivers <= max_rivers
    /\ db.seq_trip_logs <= max_trips
    /\ db.seq_river_documents <= max_documents

(***************************************************************************)
(* Spec: the whole program.                                                *)
(***************************************************************************)
SpecBound == Within(SpecMaxRows, SpecMaxRows, SpecMaxRows)

Next ==
    \/ Tick
    \/ toggle_trip_logs_setting
    \/ MainWindow_add_river /\ SpecBound'
    \/ MainWindow_edit_river
    \/ MainWindow_delete_river
    \/ MainWindow_add_trip_log /\ SpecBound'
    \/ MainWindow_edit_trip_log
    \/ MainWindow_delete_trip_log
    \/ add_file /\ SpecBound'
    \/ remove_file
    \/ MainWindow_import_data /\ SpecBound'

Spec == Init /\ [][Next]_vars

(***************************************************************************)
(* CrudSpec: the stores that the river and trip handlers alone can build.  *)
(***************************************************************************)
CrudBound == Within(MaxRiverId, MaxTripId, 0)

CrudNext ==
    \/ MainWindow_add_river /\ CrudBound'
    \/ MainWindow_edit_river
    \/ MainWindow_delete_river
    \/ MainWindow_add_trip_log /\ CrudBound'
    \/ MainWindow_edit_trip_log
    \/ MainWindow_delete_trip_log

CrudSpec == Init /\ [][CrudNext]_vars

(***************************************************************************)
(* TraceSpec: the entity store and the interchange, observed up to and     *)
(* including the first import, which is recorded in trace.                 *)
(***************************************************************************)
TraceBound == Within(MaxRiverId, TraceMaxTripId, 0)

TracedImport == \E doc \in Docs : ImportStep(doc, TRUE)

TraceNext ==
    \/ trace = NoTrace /\ Tick
    \/ trace = NoTrace /\ toggle_trip_logs_setting
    \/ trace = NoTrace /\ MainWindow_add_river /\ TraceBound'
    \/ trace = NoTrace /\ MainWindow_edit_river
    \/ trace = NoTrace /\ MainWindow_delete_river
    \/ trace = NoTrace /\ MainWindow_add_trip_log /\ TraceBound'
    \/ trace = NoTrace /\ MainWindow_edit_trip_log
    \/ trace = NoTrace /\ MainWindow_delete_trip_log
    \/ trace = NoTrace /\ TracedImport /\ TraceBound'

TraceSpec == Init /\ [][TraceNext]_vars

(***************************************************************************)
(* BatchSpec: one import of a rivers-only document of up to MaxBatch       *)
(* entries into a store of at most one river.                              *)
(***************************************************************************)
BatchDocs ==
    {Doc("array", rs, "absent", <<>>) : rs \in SeqsUpTo(RiverRecs, MaxBatch)}

BatchBound == Within(MaxBatch + 1, 0, 0)

BatchImport == \E doc \in BatchDocs : ImportStep(doc, TRUE)

BatchNext ==
    \/ trace = NoTrace /\ db.rivers = {} /\ MainWindow_add_river
    \/ trace = NoTrace /\ BatchImport /\ BatchBound'

BatchSpec == Init /\ [][BatchNext]_vars

(***************************************************************************)
(* EditSpec: the rivers as add, edit and delete leave them over two        *)
(* seconds, with a trip log and an attachment beside them.                 *)
(***************************************************************************)
EditBound == Within(MaxRiverId, TraceMaxTripId, SpecMaxRows)

EditNext ==
    \/ Tick
    \/ MainWindow_add_river /\ EditBound'
    \/ MainWindow_edit_river
    \/ MainWindow_delete_river
    \/ MainWindow_add_trip_log /\ EditBound'
    \/ add_file /\ EditBound'

EditSpec == Init /\ [][EditNext]_vars

(***************************************************************************)
(* AttachSpec: the attachments of one river, up to and including one       *)
(* attachment handler recorded in trace.                                   *)
(***************************************************************************)
AttachBound == Within(SpecMaxRows, SpecMaxRows, MaxDocId)

TracedAttach ==
    \E river \in db.rivers, file_name \in FileNames, copy_ok \in BOOLEAN,
       ok \in BOOLEAN :
        AttachStep(river, file_name, copy_ok, ok, TRUE)

TracedRemove ==
    \E river \in db.rivers, remove_ok \in BOOLEAN :
      \E doc_data \in get_river_documents(db, river.id) :
        RemoveStep(doc_data, remove_ok, TRUE)

AttachNext ==
    \/ trace = NoTrace /\ Tick
    \/ trace = NoTrace /\ MainWindow_add_river /\ AttachBound'
    \/ trace = NoTrace /\ MainWindow_delete_river
    \/ trace = NoTrace /\ MainWindow_add_trip_log /\ AttachBound'
    \/ trace = NoTrace /\ add_file /\ AttachBound'
    \/ trace = NoTrace /\ remove_file
    \/ trace = NoTrace /\ TracedAttach /\ AttachBound'
    \/ trace = NoTrace /\ TracedRemove

AttachSpec == Init /\ [][AttachNext]_vars

(***************************************************************************)
(* SoundDiskSpec: attach, remove and river delete when no copy and no      *)
(* os.remove fails.                                                        *)
(***************************************************************************)
SoundDiskBound == Within(SpecMaxRows, 0, MaxDocId)

AttachCopied ==
    \E river \in db.rivers, file_name \in FileNames, ok \in BOOLEAN :
        AttachStep(river, file_name, TRUE, ok, FALSE)

RemoveDone ==
    \E river \in db.rivers :
      \E doc_data \in get_river_documents(db, river.id) :
        RemoveStep(doc_data, TRUE, FALSE)

SoundDiskNext ==
    \/ Tick
    \/ MainWindow_add_river /\ SoundDiskBound'
    \/ MainWindow_delete_river
    \/ AttachCopied /\ SoundDiskBound'
    \/ RemoveDone

SoundDiskSpec == Init /\ [][SoundDiskNext]_vars

(***************************************************************************)
(* CrashSpec: one import pass that the process does not survive.  The      *)
(* rivers loop and then the trips loop handle one entry after the other,   *)
(* and every add opens its own connection and commits before it returns:   *)
(* when the process dies between two entries, the store is what the first  *)
(* cut entries made of it.  trace keeps the document, the cut, the store   *)
(* before the pass and the outcome of every entry handled.                 *)
(***************************************************************************)
RecordCount(doc) == Len(doc.rivers.items) + Len(doc.trips.items)

(* The entries the pass has handled when it dies after cut of them. *)
Handled(doc, cut) ==
    LET rivers_done == IF cut < Len(doc.rivers.items) THEN cut
                       ELSE Len(doc.rivers.items)
    IN  [doc EXCEPT !.rivers.items = SubSeq(@, 1, rivers_done),
                    !.trips.items = SubSeq(@, 1, cut - rivers_done)]

InterruptedImport(doc, cut) ==
    LET res == import_data(db, Handled(doc, cut), include_trip_logs, clock)
    IN  /\ db' = res.db
        /\ trace' = [on |-> TRUE, doc |-> doc, flag |-> include_trip_logs,
                     before |-> db, cut |-> cut,
                     river_outcomes |-> res.river_outcomes,
                     trip_outcomes |-> res.trip_outcomes]
        /\ UNCHANGED <<files, clock, include_trip_logs>>

CrashedImport ==
    \E doc \in ArrayDocs : \E cut \in 0..RecordCount(doc) :
        InterruptedImport(doc, cut)

CrashBound == Within(MaxBatch, MaxTripId, 0)

CrashNext ==
    \/ trace = NoTrace /\ toggle_trip_logs_setting
    \/ trace = NoTrace /\ db.seq_rivers < MaxRiverId /\ MainWindow_add_river
    \/ trace = NoTrace /\ db.seq_trip_logs = 0 /\ MainWindow_add_trip_log
    \/ trace = NoTrace /\ CrashedImport /\ CrashBound'

CrashSpec == Init /\ [][CrashNext]_vars

(***************************************************************************)
(* PassSpec: one import of a document of up to MaxBatch entries into a     *)
(* store of at most one river and one trip log, followed or not by a       *)
(* second import of the same document.  trace keeps the first import as in *)
(* TraceSpec and, once the second has run, the store between the two and   *)
(* the report of the second.                                               *)
(***************************************************************************)
PassDocs ==
    {Doc("array", x[1], IF x[2] = <<>> THEN "absent" ELSE "array", x[2]) :
        x \in {y \in SeqsUpTo(RiverRecs, MaxRiverId)
                      \X SeqsUpTo(TripRecs, MaxTripId) :
                  Len(y[1]) + Len(y[2]) <= MaxBatch}}

PassBound == Within(MaxBatch, MaxBatch, 0)

PassImport == \E doc \in PassDocs : ImportStep(doc, TRUE)

ImportedTwice == trace # NoTrace /\ "second" \in DOMAIN trace

ImportAgain ==
    LET res == import_data(db, trace.doc, include_trip_logs, clock)
    IN  /\ trace # NoTrace /\ ~ImportedTwice
        /\ db' = res.db
        /\ trace' = [on |-> TRUE, doc |-> trace.doc, flag |-> trace.flag,
                     before |-> trace.before, report |-> trace.report,
                     between |-> db, second |-> [res EXCEPT !.db = 0]]
        /\ UNCHANGED <<files, clock, include_trip_logs>>

PassNext ==
    \/ trace = NoTrace /\ toggle_trip_logs_setting
    \/ trace = NoTrace /\ db.seq_rivers = 0 /\ MainWindow_add_river
    \/ trace = NoTrace /\ db.seq_trip_logs = 0 /\ MainWindow_add_trip_log
    \/ trace = NoTrace /\ PassImport /\ PassBound'
    \/ trace # NoTrace /\ ~ImportedTwice /\ Tick
    \/ ImportAgain /\ PassBound'

PassSpec == Init /\ [][PassNext]_vars

(***************************************************************************)
(* InitSpec: DatabaseManager() opening a file again and again.  The file   *)
(* is one this program created and filled, or one written before the tags  *)
(* column and the river_tags table existed, which the handlers touch only  *)
(* once init_database has migrated it.  trace keeps the store found by the *)
(* first of a run of openings and counts them.                             *)
(***************************************************************************)
LegacyFile ==
    [BlankFile EXCEPT
        !.schema = ("rivers" :> (RiversColumns \ {"tags"}))
                     @@ ("river_documents" :> RiverDocumentsColumns)
                     @@ ("trip_logs" :> TripLogsColumns),
        !.rivers = {[id |-> 1, name |-> <<"g">>, location |-> <<"w">>,
                     region |-> JNull, date_added |-> 0, last_updated |-> 0]},
        !.trip_logs = {[id |-> 1, river_id |-> 1, trip_date |-> <<"1">>]},
        !.river_documents = {[id |-> 1, river_id |-> 1,
                              file_path |-> NewFilePath(0, "map.pdf"),
                              description |-> "map.pdf"]},
        !.seq_rivers = 1, !.seq_trip_logs = 1, !.seq_river_documents = 1]

InitInit ==
    /\ db \in {EmptyDb, LegacyFile}
    /\ files = {f.file_path : f \in db.river_documents}
    /\ clock = 0
    /\ include_trip_logs = TRUE
    /\ trace = NoTrace

DatabaseManager_init ==
    /\ trace # NoTrace => trace.runs < MaxRuns
    /\ db' = init_database(db)
    /\ trace' = [on |-> TRUE,
                 before |-> IF trace = NoTrace THEN db ELSE trace.before,
                 runs |-> IF trace = NoTrace THEN 1 ELSE trace.runs + 1]
    /\ UNCHANGED <<files, clock, include_trip_logs>>

Opened == trace = NoTrace /\ db.schema = EmptyDb.schema

InitBound == Within(MaxRiverId, SpecMaxRows, SpecMaxRows)

InitNext ==
    \/ Opened /\ MainWindow_add_river /\ InitBound'
    \/ Opened /\ MainWindow_add_trip_log /\ InitBound'
    \/ Opened /\ add_file /\ InitBound'
    \/ DatabaseManager_init

InitSpec == InitInit /\ [][InitNext]_vars

(***************************************************************************)
(* Properties.                                                             *)
(***************************************************************************)
RoundTrip == import_data(EmptyDb, export_data(db, TRUE), TRUE, clock)

(* The rivers have pairwise different identifiers, and the trips of        *)
(* existing rivers pairwise different (normalized river name, date) pairs. *)
NaturalKeysDistinct ==
    /\ \A r, q \in db.rivers :
         r # q => Identifier(r.name, r.location) # Identifier(q.name, q.location)
    /\ \A t, u \in JoinedTrips(db, 0) :
         t # u => <<strip(lower(t.river_name)), t.trip_date>>
                    # <<strip(lower(u.river_name)), u.trip_date>>

C2_CascadeDelete ==
    [][MainWindow_delete_river =>
         \A id \in RiverIds(db) \ RiverIds(db') :
             /\ \A t \in db'.trip_logs : t.river_id # id
             /\ \A x \in db'.river_documents : x.river_id # id]_vars

(* C3: in every reachable state every trip log and every attachment row    *)
(* has the id of a river of the store as its river_id.                     *)
C3_ReferentialIntegrity ==
    /\ \A t \in db.trip_logs : t.river_id \in RiverIds(db)
    /\ \A x \in db.river_documents : x.river_id \in RiverIds(db)

(* C10: in every reachable state every river has a non-empty name and a    *)
(* non-empty location.                                                     *)
C10_NameAndLocationNonEmpty ==
    \A r \in db.rivers : r.name # <<>> /\ r.location # <<>>

(***************************************************************************)
(* The import that trace recorded: its entries, and what became of each.   *)
(***************************************************************************)
TracedArrayImport ==
    /\ trace # NoTrace
    /\ trace.doc.parseable /\ trace.doc.dict
    /\ trace.doc.rivers.k = "array"

IncomingRivers == trace.doc.rivers.items
IncomingTrips == IF trace.doc.trips.k = "absent" THEN <<>>
                 ELSE trace.doc.trips.items

(* A river entry that is an object whose name and location are text. *)
WellFormedRiver(rec) ==
    /\ rec.obj
    /\ Get(rec.name, JStr(<<>>)).k = "str"
    /\ Get(rec.location, JStr(<<>>)).k = "str"

(* A well-formed river entry that the store accepts. *)
StorableRiver(rec) ==
    /\ WellFormedRiver(rec)
    /\ ~DatabaseManager_add_river(EmptyDb, StripRiver(rec), 0).raised

PairOf(rec) ==
    Identifier(Get(rec.name, JStr(<<>>)).s, Get(rec.location, JStr(<<>>)).s)

(* A trip entry that is an object whose river_name is text. *)
WellFormedTrip(rec) ==
    rec.obj /\ Get(rec.river_name, JStr(<<>>)).k = "str"

(* The store as import_trips finds it: after the rivers of the document. *)
StoreAtTripImport ==
    import_rivers(trace.before, IncomingRivers, clock).db

CountOf(outcomes, wanted) ==
    Cardinality({i \in 1..Len(outcomes) : outcomes[i] \in wanted})

(* C4: in an import of a rivers array without trips, every storable river  *)
(* entry whose normalized name|location is that of a stored river is       *)
(* skipped and adds no row, every storable entry whose pair is neither in  *)
(* the store nor that of an earlier entry is imported, and the two counts  *)
(* reported are the numbers of entries imported and skipped.               *)
C4_ImportAgainstExisting ==
    (TracedArrayImport /\ IncomingTrips = <<>>) =>
        /\ \A i \in 1..Len(IncomingRivers) :
             StorableRiver(IncomingRivers[i]) =>
                IF PairOf(IncomingRivers[i]) \in ExistingIdentifiers(trace.before)
                THEN trace.report.river_outcomes[i] = "duplicate"
                ELSE (\A j \in 1..(i - 1) :
                         WellFormedRiver(IncomingRivers[j]) =>
                             PairOf(IncomingRivers[j]) # PairOf(IncomingRivers[i]))
                     => trace.report.river_outcomes[i] = "imported"
        /\ trace.report.rivers_imported
             = CountOf(trace.report.river_outcomes, {"imported"})
        /\ Cardinality(db.rivers) = Cardinality(trace.before.rivers)
             + CountOf(trace.report.river_outcomes, {"imported"})

(* C5: in an import of a rivers array, of the storable entries that share  *)
(* a normalized name|location pair no river of the store has, the first    *)
(* is imported, every other one is skipped as a duplicate, and the store   *)
(* gains exactly one river with that pair.                                 *)
C5_IntraBatchDuplicates ==
    TracedArrayImport =>
        \A i \in 1..Len(IncomingRivers) :
            LET same == {j \in 1..Len(IncomingRivers) :
                            /\ StorableRiver(IncomingRivers[j])
                            /\ PairOf(IncomingRivers[j]) = PairOf(IncomingRivers[i])}
            IN  (/\ StorableRiver(IncomingRivers[i])
                 /\ Cardinality(same) >= 2
                 /\ PairOf(IncomingRivers[i]) \notin ExistingIdentifiers(trace.before))
                =>
                /\ \A j \in same :
                     trace.report.river_outcomes[j]
                       = IF \A k \in same : j <= k THEN "imported"
                         ELSE "duplicate"
                /\ Cardinality({r \in db.rivers \ trace.before.rivers :
                       Identifier(r.name, r.location) = PairOf(IncomingRivers[i])})
                     = 1

(* C6: an import leaves every river and every trip log that was in the     *)
(* store before it in the store, with every field as it was, and gives no  *)
(* new row the id of an old one.                                           *)
C6_ImportKeepsExistingRows ==
    trace # NoTrace =>
        /\ trace.before.rivers \subseteq db.rivers
        /\ trace.before.trip_logs \subseteq db.trip_logs
        /\ \A r \in db.rivers, q \in trace.before.rivers : r.id = q.id => r = q
        /\ \A t \in db.trip_logs, u \in trace.before.trip_logs :
             t.id = u.id => t = u

(* An import into a store holding a trip log and a river last written      *)
(* before now, in which one entry was imported and another, spelled        *)
(* otherwise than the stored river it duplicates, was skipped.             *)
C6_Witness ==
    /\ TracedArrayImport
    /\ trace.report.status = "completed"
    /\ trace.before.trip_logs # {}
    /\ \E r \in trace.before.rivers : r.last_updated < clock
    /\ trace.report.rivers_imported >= 1
    /\ \E i \in 1..Len(IncomingRivers), r \in trace.before.rivers :
         /\ trace.report.river_outcomes[i] = "duplicate"
         /\ PairOf(IncomingRivers[i]) = Identifier(r.name, r.location)
         /\ IncomingRivers[i].name.s # r.name

(* C7: when import_trips runs, every trip entry whose normalized           *)
(* river_name is the name of no river of the store at that time is         *)
(* skipped, the skips reported count it, and no trip log the import adds   *)
(* has a river_id that is not the id of a river of the store.              *)
C7_UnmatchedTripSkipped ==
    (/\ TracedArrayImport
     /\ trace.flag
     /\ ~import_rivers(trace.before, IncomingRivers, clock).raised) =>
        /\ \A i \in 1..Len(IncomingTrips) :
             (/\ WellFormedTrip(IncomingTrips[i])
              /\ strip(lower(Get(IncomingTrips[i].river_name, JStr(<<>>)).s))
                   \notin DOMAIN RiverNameToId(StoreAtTripImport))
             => trace.report.trip_outcomes[i] = "no_river"
        /\ trace.report.trips_skipped
             = CountOf(trace.report.trip_outcomes,
                       {"no_river", "duplicate", "failed"})
        /\ \A t \in db.trip_logs \ trace.before.trip_logs :
             t.river_id \in RiverIds(db)

(* A trip entry that is well formed and that the store accepts. *)
StorableTrip(rec) ==
    /\ WellFormedTrip(rec)
    /\ ~DatabaseManager_add_trip_log(EmptyDb, rec).raised

Without(seq, i) == SubSeq(seq, 1, i - 1) \o SubSeq(seq, i + 1, Len(seq))

BadRivers == {i \in 1..Len(IncomingRivers) : ~StorableRiver(IncomingRivers[i])}
BadTrips == {i \in 1..Len(IncomingTrips) : ~StorableTrip(IncomingTrips[i])}

(* C8: an import whose document has exactly one entry that is malformed   *)
(* or that the store rejects completes, reports one skip more than the     *)
(* import of the document without that entry, and reports the same other   *)
(* counts and leaves the same store as that import.                        *)
C8_BadRecordIsOneSkip ==
    (TracedArrayImport /\ Cardinality(BadRivers) + Cardinality(BadTrips) = 1) =>
        LET rest ==
              IF BadRivers # {}
              THEN [trace.doc EXCEPT !.rivers.items =
                        Without(@, CHOOSE i \in BadRivers : TRUE)]
              ELSE [trace.doc EXCEPT !.trips.items =
                        Without(@, CHOOSE i \in BadTrips : TRUE)]
            ref == import_data(trace.before, rest, trace.flag, clock)
            one_river == IF BadRivers # {} THEN 1 ELSE 0
        IN  /\ trace.report.status = "completed"
            /\ db = ref.db
            /\ trace.report.rivers_imported = ref.rivers_imported
            /\ trace.report.trips_imported = ref.trips_imported
            /\ trace.report.rivers_skipped = ref.rivers_skipped + one_river
            /\ trace.report.trips_skipped
                 = ref.trips_skipped + (1 - one_river)

(* A document the import must refuse: not parseable, not an object,        *)
(* without a rivers key, or with a rivers value that is not an array.      *)
InvalidFormat(doc) ==
    ~doc.parseable \/ ~doc.dict \/ doc.rivers.k # "array"

(* C9: an import of such a document ends in an error and leaves the store  *)
(* as it was.                                                              *)
C9_InvalidFormatBeforeMutation ==
    (trace # NoTrace /\ InvalidFormat(trace.doc)) =>
        /\ trace.report.status \in {"invalid_json", "invalid_file", "error"}
        /\ db = trace.before

C13_UpdateFrame ==
    [][MainWindow_edit_river =>
         /\ db'.trip_logs = db.trip_logs
         /\ db'.river_documents = db.river_documents
         /\ \E r \in db.rivers :
              /\ db.rivers \ {r} \subseteq db'.rivers
              /\ \E q \in db'.rivers :
                   /\ q.id = r.id /\ q.date_added = r.date_added
                   /\ db'.rivers = (db.rivers \ {r}) \cup {q}]_vars

(* Two rivers, a trip log and an attachment row, one river updated after   *)
(* the second in which it was added.                                       *)
C13_Witness ==
    /\ Cardinality(db.rivers) = 2
    /\ db.trip_logs # {}
    /\ db.river_documents # {}
    /\ \E r \in db.rivers : r.last_updated > r.date_added

(* C14: a step of edit_river that changes a river leaves that river with   *)
(* a last_updated later than the one it had.                               *)
C14_UpdateAdvances ==
    [][(MainWindow_edit_river /\ db' # db) =>
         \A r \in db.rivers, q \in db'.rivers :
             (q.id = r.id /\ q # r) => q.last_updated > r.last_updated]_vars

(* The river records add_river is given: what the form returns and the    *)
(* objects an interchange document holds.                                  *)
RiverRecords ==
    {get_river_data(n, l) : n \in RawNames, l \in RawLocations}
    \cup {rec \in RiverRecs : rec.obj}

(* C15: in every reachable store, for every river record r that add_river  *)
(* accepts, get_river_by_id of the id add_river returns finds one row,     *)
(* whose name and location are those of r ('' for a key r lacks) and       *)
(* whose date_added equals its last_updated.                               *)
C15_AddThenGet ==
    \A r \in RiverRecords :
        LET added == DatabaseManager_add_river(db, r, clock)
            found == get_river_by_id(added.db, added.id)
        IN  ~added.raised =>
               /\ Cardinality(found) = 1
               /\ \A row \in found :
                    /\ row.name = Get(r.name, JStr(<<>>)).s
                    /\ row.location = Get(r.location, JStr(<<>>)).s
                    /\ row.date_added = row.last_updated

(* A store in which the river added last, in this second, is found by its  *)
(* id with equal timestamps, beside an id that was deleted and a later     *)
(* second than the first add.                                              *)
C15_Witness ==
    /\ clock > 0
    /\ \E row \in get_river_by_id(db, db.seq_rivers) :
         row.date_added = clock /\ row.last_updated = clock
    /\ \E i \in 1..db.seq_rivers : get_river_by_id(db, i) = {}

(* Whether update_river raises: a value sqlite3 cannot bind, or NULL put   *)
(* into name or location of a row the UPDATE matches.  An UPDATE whose     *)
(* WHERE matches no row is executed and committed without an exception.    *)
update_river_raises(d, river_id, river_data) ==
    LET name == Get(river_data.name, JStr(<<>>))
        location == Get(river_data.location, JStr(<<>>))
        region == Get(river_data.region, JStr(<<>>))
    IN  \/ ~Bindable(name) \/ ~Bindable(location) \/ ~Bindable(region)
        \/ /\ river_id \in RiverIds(d)
           /\ (name.k = "null" \/ location.k = "null")

(* Whether update_trip_log raises: NULL put into trip_date of a row the    *)
(* UPDATE matches.                                                         *)
update_trip_log_raises(d, trip_id, trip_data) ==
    /\ \E t \in d.trip_logs : t.id = trip_id
    /\ Get(trip_data.trip_date, JNull).k = "null"

UnknownRiverIds == (1..(MaxRiverId + 1)) \ RiverIds(db)
UnknownTripIds == (1..(MaxTripId + 1)) \ {t.id : t \in db.trip_logs}

(* C16: in every reachable store, for an id that is in no row of the       *)
(* table, get finds nothing, delete and update leave the store as it is,   *)
(* and update_river and update_trip_log raise to their caller.             *)
C16_UnknownIdPolicy ==
    /\ \A id \in UnknownRiverIds :
         /\ get_river_by_id(db, id) = {}
         /\ DatabaseManager_delete_river(db, id) = db
         /\ \A n \in RawNames, l \in RawLocations :
              /\ DatabaseManager_update_river(db, id, get_river_data(n, l),
                                              clock) = db
              /\ update_river_raises(db, id, get_river_data(n, l))
    /\ \A id \in UnknownTripIds :
         /\ get_trip_log_by_id(db, id) = {}
         /\ DatabaseManager_delete_trip_log(db, id) = db
         /\ \A river \in db.rivers, date \in TripDates :
              /\ DatabaseManager_update_trip_log(
                     db, id, get_trip_data(river.id, date)) = db
              /\ update_trip_log_raises(db, id, get_trip_data(river.id, date))

(* C17: in every state reached without a failing I/O call, a path is a     *)
(* file of the attachments directory exactly when one and only one         *)
(* attachment row has it as file_path.                                     *)
C17_FileAndMetadataOneUnit ==
    /\ \A f \in files :
         Cardinality({x \in db.river_documents : x.file_path = f}) = 1
    /\ \A x \in db.river_documents :
         /\ x.file_path \in files
         /\ \A y \in db.river_documents : y.file_path = x.file_path => y = x

(* C18: in every state any two attachment rows have different file_path    *)
(* values.                                                                 *)
C18_CollisionFreeNames ==
    \A x, y \in db.river_documents : x # y => x.file_path # y.file_path

(* C19: an attach whose copy failed shows the error box, leaves the        *)
(* attachment rows, the rivers and the trip logs as they were, and leaves  *)
(* no new file.                                                            *)
C19_AttachAllOrNothing ==
    (trace # NoTrace /\ trace.op = "add_file" /\ ~trace.io_ok) =>
        /\ trace.message = "error"
        /\ db.river_documents = trace.before.river_documents
        /\ db.rivers = trace.before.rivers
        /\ db.trip_logs = trace.before.trip_logs
        /\ db = trace.before
        /\ files = trace.files_before

(* A failed copy, of an attach whose prompt would have been accepted, in   *)
(* a store with a river, a trip log and an earlier attachment.             *)
C19_Witness ==
    /\ trace # NoTrace /\ trace.op = "add_file" /\ ~trace.io_ok /\ trace.ok
    /\ db.rivers # {} /\ db.trip_logs # {} /\ db.river_documents # {}
    /\ trace.file_path \notin files

(* C20: a remove deletes the metadata row whether or not the file can be   *)
(* deleted; when os.remove fails the error box is shown, the row stays     *)
(* deleted and the file stays; otherwise the file is gone and the success  *)
(* box is shown.  No other row changes.                                    *)
C20_RemoveOrdering ==
    (trace # NoTrace /\ trace.op = "remove_file") =>
        /\ Cardinality(db.river_documents)
             = Cardinality(trace.before.river_documents) - 1
        /\ db.river_documents \subseteq trace.before.river_documents
        /\ IF trace.file_path \in trace.files_before /\ ~trace.io_ok
           THEN trace.message = "error" /\ files = trace.files_before
           ELSE /\ trace.message = "success"
                /\ files = trace.files_before \ {trace.file_path}

(* A remove whose os.remove failed: the file is still there and no row     *)
(* names it.                                                               *)
C20_Witness ==
    /\ trace # NoTrace /\ trace.op = "remove_file" /\ ~trace.io_ok
    /\ trace.message = "error"
    /\ trace.file_path \in files
    /\ \A x \in db.river_documents : x.file_path # trace.file_path

(* C21: an import made with the trip-log setting off leaves the trip_logs  *)
(* table, its id sequence included, as it was, processes no trip entry,    *)
(* and counts no trip as imported.                                         *)
C21_DisabledNeverReconcilesTrips ==
    (trace # NoTrace /\ ~trace.flag) =>
        /\ db.trip_logs = trace.before.trip_logs
        /\ db.seq_trip_logs = trace.before.seq_trip_logs
        /\ trace.report.trips_imported = 0
        /\ trace.report.trip_outcomes = <<>>

(* A completed import with the setting off whose document holds a trip     *)
(* that the same import with the setting on would have added: its trips    *)
(* are all reported skipped.                                               *)
C21_Witness ==
    /\ TracedArrayImport
    /\ ~trace.flag
    /\ trace.report.status = "completed"
    /\ IncomingTrips # <<>>
    /\ import_trips(db, IncomingTrips).imported >= 1
    /\ trace.report.trips_skipped = Len(IncomingTrips)

(* C22: the exported object has the keys rivers, export_date and           *)
(* includes_trip_logs, the last one equal to the setting; rivers holds one *)
(* entry, with its id, for every row of rivers; the key trips is there     *)
(* exactly when the setting is on, and then holds one entry for every row  *)
(* of trip_logs, carrying the name of the river of that row.               *)
C22_ExportShape ==
    \A flag \in BOOLEAN :
        LET object == ExportObject(db, flag, clock)
        IN  /\ {"rivers", "export_date", "includes_trip_logs"}
                 \subseteq DOMAIN object
            /\ object["includes_trip_logs"] = flag
            /\ Len(object["rivers"]) = Cardinality(db.rivers)
            /\ \A r \in db.rivers :
                 \E i \in 1..Len(object["rivers"]) :
                    /\ object["rivers"][i].id = r.id
                    /\ object["rivers"][i].name = JStr(r.name)
            /\ ("trips" \in DOMAIN object) = flag
            /\ flag =>
                 /\ Len(object["trips"]) = Cardinality(db.trip_logs)
                 /\ \A t \in db.trip_logs :
                      \E i \in 1..Len(object["trips"]) :
                         /\ object["trips"][i].id = t.id
                         /\ \E r \in db.rivers :
                              /\ r.id = t.river_id
                              /\ object["trips"][i].river_name = JStr(r.name)

(* C23: when an import pass dies after some of its entries, the store      *)
(* holds every row it held before the pass, unchanged, and beside them     *)
(* exactly one river per river entry imported so far and one trip log per  *)
(* trip entry imported so far; every new row has all its columns, with     *)
(* text in those declared NOT NULL, and every new trip log references a    *)
(* river of the store.                                                     *)
C23_InterruptedImport ==
    trace # NoTrace =>
        LET new_rivers == db.rivers \ trace.before.rivers
            new_trips == db.trip_logs \ trace.before.trip_logs
        IN  /\ trace.before.rivers \subseteq db.rivers
            /\ trace.before.trip_logs \subseteq db.trip_logs
            /\ Cardinality(db.rivers) = Cardinality(trace.before.rivers)
                 + CountOf(trace.river_outcomes, {"imported"})
            /\ Cardinality(db.trip_logs) = Cardinality(trace.before.trip_logs)
                 + CountOf(trace.trip_outcomes, {"imported"})
            /\ \A r \in new_rivers :
                 /\ DOMAIN r = {"id", "name", "location", "region",
                                "date_added", "last_updated"}
                 /\ r.id \in (trace.before.seq_rivers + 1)..db.seq_rivers
                 /\ Len(r.name) >= 0 /\ Len(r.location) >= 0
                 /\ r.date_added = clock /\ r.last_updated = clock
            /\ \A t \in new_trips :
                 /\ DOMAIN t = {"id", "river_id", "trip_date"}
                 /\ t.id \in (trace.before.seq_trip_logs + 1)..db.seq_trip_logs
                 /\ Len(t.trip_date) >= 0
                 /\ t.river_id \in RiverIds(db)

(* A pass that died before its last entry, after it had imported a trip,   *)
(* and that would have imported another entry had it lived.                *)
C23_Witness ==
    /\ trace # NoTrace
    /\ trace.cut < RecordCount(trace.doc)
    /\ CountOf(trace.trip_outcomes, {"imported"}) >= 1
    /\ import_data(trace.before, trace.doc, trace.flag, clock).db # db

C25_InitIdempotent ==
    trace # NoTrace =>
        /\ db.rivers = trace.before.rivers
        /\ db.trip_logs = trace.before.trip_logs
        /\ db.river_documents = trace.before.river_documents
        /\ \A table \in DOMAIN trace.before.schema :
             /\ table \in DOMAIN db.schema
             /\ trace.before.schema[table] \subseteq db.schema[table]
        /\ db = init_database(trace.before)
        /\ init_database(db) = db

(* init_database has run twice on a store with a row in each of the three  *)
(* tables.                                                                 *)
C25_Witness ==
    /\ trace # NoTrace
    /\ trace.runs = 2
    /\ trace.before.rivers # {}
    /\ trace.before.trip_logs # {}
    /\ trace.before.river_documents # {}

(* C26: when the export of the store is imported into an empty store,      *)
(* every trip entry that is imported becomes a trip log of the river that  *)
(* has the normalized name and location of the river the trip belongs to   *)
(* in the store exported.                                                  *)
C26_TripsFollowNaturalKey ==
    LET exported == ExportTrips(db)
        res == RoundTrip
    IN  res.status = "completed" =>
            \A i \in 1..Len(exported) :
                res.trip_outcomes[i] = "imported" =>
                    LET new_id == CountOf(SubSeq(res.trip_outcomes, 1, i),
                                          {"imported"})
                    IN  \E source \in db.rivers, t \in res.db.trip_logs,
                           q \in res.db.rivers :
                            /\ source.id = exported[i].river_id
                            /\ t.id = new_id
                            /\ q.id = t.river_id
                            /\ Identifier(q.name, q.location)
                                 = Identifier(source.name, source.location)

(* The normalized name under which import_trips looks a river up. *)
NameKey(value) == strip(lower(Get(value, JStr(<<>>)).s))

(* Trip entry i names a river that this pass imported and that no river of *)
(* the store before the pass shares its normalized name with.              *)
OnRiverOfThisPass(i) ==
    /\ WellFormedTrip(IncomingTrips[i])
    /\ \E j \in 1..Len(IncomingRivers) :
         /\ trace.report.river_outcomes[j] = "imported"
         /\ NameKey(IncomingRivers[j].name)
              = NameKey(IncomingTrips[i].river_name)
    /\ \A r \in trace.before.rivers :
         strip(lower(r.name)) # NameKey(IncomingTrips[i].river_name)

(* The trip log that the import of trip entry i added. *)
RowOfTrip(i) ==
    CHOOSE t \in db.trip_logs :
        t.id = trace.before.seq_trip_logs
                 + CountOf(SubSeq(trace.report.trip_outcomes, 1, i),
                           {"imported"})

(* C27: in an import with the trip-log setting on, every storable trip     *)
(* entry that names a river imported in the same pass, and whose river and *)
(* trip_date no earlier entry of the batch has, is imported, and its trip  *)
(* log carries the id that the pass gave that river.                       *)
C27_RiversBeforeTrips ==
    (TracedArrayImport /\ ~ImportedTwice /\ trace.flag) =>
        \A i \in 1..Len(IncomingTrips) :
            (/\ OnRiverOfThisPass(i)
             /\ StorableTrip(IncomingTrips[i])
             /\ \A k \in 1..(i - 1) :
                  WellFormedTrip(IncomingTrips[k]) =>
                    \/ NameKey(IncomingTrips[k].river_name)
                         # NameKey(IncomingTrips[i].river_name)
                    \/ IncomingTrips[k].trip_date # IncomingTrips[i].trip_date)
            =>
            /\ i <= Len(trace.report.trip_outcomes)
            /\ trace.report.trip_outcomes[i] = "imported"
            /\ \E r \in db.rivers \ trace.before.rivers :
                 /\ r.id = RowOfTrip(i).river_id
                 /\ strip(lower(r.name)) = NameKey(IncomingTrips[i].river_name)

(* The (river_id, trip_date) pair under which import_trips files trip      *)
(* entry i: the id its river_name maps to, and the text of its trip_date.  *)
DestinationPair(i) ==
    TripIdentifier(
        RiverNameToId(StoreAtTripImport)[NameKey(IncomingTrips[i].river_name)],
        PyStr(Get(IncomingTrips[i].trip_date, JStr(<<>>))))

(* Trip entry i names a river that the store holds when the trips pass     *)
(* starts.                                                                 *)
HasDestination(i) ==
    /\ WellFormedTrip(IncomingTrips[i])
    /\ NameKey(IncomingTrips[i].river_name)
         \in DOMAIN RiverNameToId(StoreAtTripImport)

(* C28: an import with the trip-log setting on adds no trip log with the   *)
(* river_id and trip_date of a trip log the store held, and no two trip    *)
(* logs with the same river_id and trip_date; and every trip entry whose   *)
(* destination pair is that of a stored trip log, or of an earlier entry   *)
(* of the batch that was added, is skipped as a duplicate.                 *)
C28_TripDeduplication ==
    (TracedArrayImport /\ ~ImportedTwice /\ trace.flag) =>
        LET added == db.trip_logs \ trace.before.trip_logs
            outcomes == trace.report.trip_outcomes
        IN  /\ \A t \in added, u \in trace.before.trip_logs :
                 ~(t.river_id = u.river_id /\ t.trip_date = u.trip_date)
            /\ \A t, u \in added :
                 (t.river_id = u.river_id /\ t.trip_date = u.trip_date)
                     => t = u
            /\ \A i \in 1..Len(IncomingTrips) :
                 (/\ HasDestination(i)
                  /\ \/ \E u \in trace.before.trip_logs :
                          DestinationPair(i)
                            = TripIdentifier(u.river_id, u.trip_date)
                     \/ \E k \in 1..(i - 1) :
                          /\ k <= Len(outcomes)
                          /\ outcomes[k] = "imported"
                          /\ DestinationPair(k) = DestinationPair(i))
                 => /\ i <= Len(outcomes)
                    /\ outcomes[i] = "duplicate"

(* C29: when import_rivers returns, its two counts add up to the number of *)
(* river entries and the rivers table has grown by the first of them; when *)
(* import_trips returns, its two counts add up to the number of trip       *)
(* entries and the trip_logs table has grown by the first of them; and     *)
(* these are the counts that a completed import reports.                   *)
C29_CountsExhaustive ==
    (TracedArrayImport /\ ~ImportedTwice) =>
        LET r == import_rivers(trace.before, IncomingRivers, clock)
            t == import_trips(r.db, IncomingTrips)
            trips_pass == ~r.raised /\ trace.flag /\ IncomingTrips # <<>>
        IN  /\ ~r.raised =>
                 /\ r.imported + r.skipped = Len(IncomingRivers)
                 /\ Cardinality(db.rivers)
                      = Cardinality(trace.before.rivers) + r.imported
            /\ (trips_pass /\ ~t.raised) =>
                 /\ t.imported + t.skipped = Len(IncomingTrips)
                 /\ Cardinality(db.trip_logs)
                      = Cardinality(trace.before.trip_logs) + t.imported
                 /\ trace.report.status = "completed"
                 /\ trace.report.trips_imported = t.imported
                 /\ trace.report.trips_skipped = t.skipped
            /\ trace.report.status = "completed" =>
                 /\ trace.report.rivers_imported = r.imported
                 /\ trace.report.rivers_skipped = r.skipped

(* A completed import of three entries in which each pass both imported    *)
(* and skipped: a river the store rejects is among the skipped.            *)
C29_Witness ==
    /\ TracedArrayImport /\ ~ImportedTwice
    /\ trace.flag
    /\ trace.report.status = "completed"
    /\ Len(IncomingRivers) + Len(IncomingTrips) = MaxBatch
    /\ trace.report.rivers_imported >= 1
    /\ trace.report.trips_imported >= 1
    /\ trace.report.rivers_skipped + trace.report.trips_skipped >= 1
    /\ \/ "failed" \in {trace.report.river_outcomes[i] :
                          i \in 1..Len(trace.report.river_outcomes)}
       \/ "failed" \in {trace.report.trip_outcomes[i] :
                          i \in 1..Len(trace.report.trip_outcomes)}

(* C30: when a document has been imported twice in succession with the     *)
(* trip-log setting on, the second import reports no river and no trip     *)
(* imported and every entry skipped, and leaves the store as the first     *)
(* import left it.                                                         *)
C30_ImportIdempotent ==
    (TracedArrayImport /\ ImportedTwice /\ trace.flag) =>
        /\ trace.second.status = "completed"
        /\ trace.second.rivers_imported = 0
        /\ trace.second.trips_imported = 0
        /\ trace.second.rivers_skipped = Len(IncomingRivers)
        /\ trace.second.trips_skipped = Len(IncomingTrips)
        /\ db = trace.between

====
